---- MODULE Spec2Model ----
(***************************************************************************)
(* Model of .githooks/validate-new-service.js, the pre-commit hook that    *)
(* checks newly added services/libs against the CI workflow trigger paths  *)
(* and the root package.json scripts.                                      *)
(*                                                                         *)
(* A file path is held split at its "/" characters: the string             *)
(* "services/foo/package.json" is <<"services", "foo", "package.json">>,   *)
(* and the empty string is <<"">>.  Join gives the string back.  Package   *)
(* paths, trigger globs and script names are real strings.                 *)
(* An optional value (undefined or null in the script) is a sequence of    *)
(* length 0, a present value v is <<v>>.                                    *)
(* A YAML value under `paths` is a record with one field that names its    *)
(* type: [list |-> <<"a", "b">>], [string |-> "a"], [number |-> 0],        *)
(* [boolean |-> FALSE] or [mapping |-> {"key"}].  A level above `paths`    *)
(* that is not a mapping has no keys and is held as an absent value.       *)
(* A manifest with wellFormed = FALSE is one whose text JSON.parse at line  *)
(* 88 rejects or whose root is null; loadable = FALSE is one that Node's   *)
(* own package.json reader rejects (the reader strips a byte order mark,   *)
(* line 88 does not, so the two differ); esm = TRUE is one that declares   *)
(* "type": "module".                                                       *)
(***************************************************************************)
EXTENDS Integers, Sequences, FiniteSets, TLC

VARIABLES git, workflowFile, manifestFile, rootGovernsScript, pc, stagedFiles, newPackages,
          workflowWarnings, allWarnings, stdout, stderr, termination,
          exitCode, filesRead

vars == <<git, workflowFile, manifestFile, rootGovernsScript, pc, stagedFiles, newPackages,
          workflowWarnings, allWarnings, stdout, stderr, termination,
          exitCode, filesRead>>

env == <<git, workflowFile, manifestFile, rootGovernsScript>>

(* ------------------------------ bounds -------------------------------- *)

MaxStaged == 2

MaxPaths == 2

(* --------------------------- configuration ---------------------------- *)

WORKFLOW_FILE_PATH == ".github/workflows/ci.yml"

ROOT_MANIFEST_PATH == "package.json"

REQUIRED_SCRIPT_PREFIXES == <<"build:", "test:", "lint:">>

(* ------------------------------ helpers ------------------------------- *)

Nothing == <<>>

Some(v) == <<v>>

RECURSIVE Join(_)
Join(segs) ==
    IF Len(segs) = 0 THEN ""
    ELSE IF Len(segs) = 1 THEN segs[1]
    ELSE segs[1] \o "/" \o Join(Tail(segs))

IsList(v) == "list" \in DOMAIN v

IsString(v) == "string" \in DOMAIN v

(* JavaScript truthiness of a YAML value: "", 0 and false are falsy *)
Truthy(v) ==
    IF IsList(v) THEN TRUE
    ELSE IF IsString(v) THEN v.string # ""
    ELSE IF "number" \in DOMAIN v THEN v.number # 0
    ELSE IF "boolean" \in DOMAIN v THEN v.boolean
    ELSE TRUE

(* String.prototype.includes *)
Substring(text, x) ==
    \E i \in 1..(Len(text) - Len(x) + 1) : SubSeq(text, i, i + Len(x) - 1) = x

(* only arrays and strings have an includes method *)
HasIncludes(v) == IsList(v) \/ IsString(v)

(* triggerPaths.includes(x): element of an array, substring of a string *)
Includes(v, x) ==
    IF IsList(v) THEN \E i \in 1..Len(v.list) : v.list[i] = x
    ELSE Substring(v.string, x)

(* the pattern without its ^ anchor: any path ending in a match *)
UnanchoredPattern(file) ==
    /\ Len(file) >= 3
    /\ file[Len(file) - 2] \in {"services", "libs"}
    /\ file[Len(file) - 1] # ""
    /\ file[Len(file)] = "package.json"

(* /^(services|libs)\/[^/]+\/package\.json$/ on a path split at "/":     *)
(* exactly three segments, the first services or libs, the second not     *)
(* empty, the third package.json.                                         *)
PACKAGE_LOCATION_PATTERN(file) ==
    /\ Len(file) = 3
    /\ file[1] \in {"services", "libs"}
    /\ file[2] # ""
    /\ file[3] = "package.json"

(* path.dirname of a relative path without trailing slash *)
dirname(file) ==
    IF Len(file) = 1 THEN <<".">> ELSE SubSeq(file, 1, Len(file) - 1)

(* path.basename of such a path *)
basename(file) == file[Len(file)]

(* output.split('\n').filter(Boolean): the lines of the output that are   *)
(* not the empty string                                                   *)
SplitLines(added) == added \o << <<"">> >>

NonEmptyLine(line) == line # <<"">>

getStagedFiles(g) ==
    IF g.fails
    THEN [files |-> <<>>, err |-> <<"Error getting staged files.">>]
    ELSE [files |-> SelectSeq(SplitLines(g.added), NonEmptyLine), err |-> <<>>]

RECURSIVE findNewPackages(_)
findNewPackages(files) ==
    IF Len(files) = 0 THEN <<>>
    ELSE LET file == files[Len(files)]
             rest == findNewPackages(SubSeq(files, 1, Len(files) - 1))
             packageDir == dirname(file)
             packageName == basename(packageDir)
         IN  IF PACKAGE_LOCATION_PATTERN(file)
             THEN Append(rest, [name |-> packageName, path |-> Join(packageDir)])
             ELSE rest

(* workflowData?.on?.pull_request?.paths and workflowData?.on?.push?.paths *)
OnSection(data) == IF data = Nothing THEN Nothing ELSE data[1].on

PullRequestPaths(data) ==
    LET on == OnSection(data)
    IN  IF on = Nothing THEN Nothing
        ELSE IF on[1].pull_request = Nothing THEN Nothing
        ELSE on[1].pull_request[1].paths

PushPaths(data) ==
    LET on == OnSection(data)
    IN  IF on = Nothing THEN Nothing
        ELSE IF on[1].push = Nothing THEN Nothing
        ELSE on[1].push[1].paths

ListOf(m) == IF m # Nothing /\ IsList(m[1]) THEN m[1].list ELSE <<>>

(* the two lists merged instead of the first one found *)
MergedTriggerPaths(data) ==
    [list |-> ListOf(PullRequestPaths(data)) \o ListOf(PushPaths(data))]

OrElse(m, other) == IF m # Nothing /\ Truthy(m[1]) THEN m[1] ELSE other

(* a || b || []: the first truthy value; an array, even an empty one, is  *)
(* truthy, while undefined, null, "", 0 and false fall through            *)
TriggerPaths(data) ==
    OrElse(PullRequestPaths(data), OrElse(PushPaths(data), [list |-> <<>>]))

(* the glob built from the package name under services/ *)
ExpectedPathFromName(pkg) == "services/" \o pkg.name \o "/**"

ExpectedPath(pkg) == pkg.path \o "/**"

NotFoundWarning == [kind |-> "workflowNotFound", file |-> WORKFLOW_FILE_PATH]

WorkflowWarning(pkg) ==
    [kind |-> "workflowPath", name |-> pkg.name, glob |-> ExpectedPath(pkg),
     file |-> WORKFLOW_FILE_PATH]

RECURSIVE WorkflowLoop(_, _)
WorkflowLoop(triggerPaths, pkgs) ==
    IF Len(pkgs) = 0 THEN <<>>
    ELSE LET pkg == pkgs[Len(pkgs)]
             rest == WorkflowLoop(triggerPaths, SubSeq(pkgs, 1, Len(pkgs) - 1))
         IN  IF ~Includes(triggerPaths, ExpectedPath(pkg))
             THEN Append(rest, WorkflowWarning(pkg))
             ELSE rest

(* the not-found branch without its early return *)
checkWorkflowPathsNoReturn(wf, pkgs) ==
    IF ~wf.exists
    THEN [threw |-> FALSE,
          warnings |-> <<NotFoundWarning>> \o WorkflowLoop([list |-> <<>>], pkgs),
          read |-> FALSE]
    ELSE IF ~wf.wellFormed
    THEN [threw |-> TRUE, warnings |-> <<>>, read |-> TRUE]
    ELSE IF Len(pkgs) > 0 /\ ~HasIncludes(TriggerPaths(wf.data))
    THEN [threw |-> TRUE, warnings |-> <<>>, read |-> TRUE]
    ELSE [threw |-> FALSE,
          warnings |-> WorkflowLoop(TriggerPaths(wf.data), pkgs),
          read |-> TRUE]

(* the not-found branch skipping the check without a warning *)
checkWorkflowPathsSilentSkip(wf, pkgs) ==
    IF ~wf.exists
    THEN [threw |-> FALSE, warnings |-> <<>>, read |-> FALSE]
    ELSE IF ~wf.wellFormed
    THEN [threw |-> TRUE, warnings |-> <<>>, read |-> TRUE]
    ELSE IF Len(pkgs) > 0 /\ ~HasIncludes(TriggerPaths(wf.data))
    THEN [threw |-> TRUE, warnings |-> <<>>, read |-> TRUE]
    ELSE [threw |-> FALSE,
          warnings |-> WorkflowLoop(TriggerPaths(wf.data), pkgs),
          read |-> TRUE]

(* result of one call: threw (yaml.parse raised, or line 72 raised a      *)
(* TypeError because triggerPaths has no includes method), the warnings   *)
(* returned, and whether readFileSync was called on the workflow file     *)
(* (filesRead collects the paths readFileSync was called on)              *)
checkWorkflowPaths(wf, pkgs) ==
    IF ~wf.exists
    THEN [threw |-> FALSE, warnings |-> <<NotFoundWarning>>, read |-> FALSE]
    ELSE IF ~wf.wellFormed
    THEN [threw |-> TRUE, warnings |-> <<>>, read |-> TRUE]
    ELSE IF Len(pkgs) > 0 /\ ~HasIncludes(TriggerPaths(wf.data))
    THEN [threw |-> TRUE, warnings |-> <<>>, read |-> TRUE]
    ELSE [threw |-> FALSE,
          warnings |-> WorkflowLoop(TriggerPaths(wf.data), pkgs),
          read |-> TRUE]

ExpectedScript(prefix, pkg) == prefix \o pkg.name

(* rootScripts[expectedScript] is truthy: the key is there and its value  *)
(* is not the empty string                                                *)
HasScript(rootScripts, expectedScript) ==
    /\ expectedScript \in DOMAIN rootScripts
    /\ rootScripts[expectedScript] # ""

ScriptWarning(expectedScript) ==
    [kind |-> "missingScript", script |-> expectedScript]

RECURSIVE PrefixLoop(_, _, _)
PrefixLoop(rootScripts, pkg, prefixes) ==
    IF Len(prefixes) = 0 THEN <<>>
    ELSE LET prefix == prefixes[Len(prefixes)]
             rest == PrefixLoop(rootScripts, pkg,
                                SubSeq(prefixes, 1, Len(prefixes) - 1))
         IN  IF ~HasScript(rootScripts, ExpectedScript(prefix, pkg))
             THEN Append(rest, ScriptWarning(ExpectedScript(prefix, pkg)))
             ELSE rest

RECURSIVE ScriptLoop(_, _)
ScriptLoop(rootScripts, pkgs) ==
    IF Len(pkgs) = 0 THEN <<>>
    ELSE ScriptLoop(rootScripts, SubSeq(pkgs, 1, Len(pkgs) - 1))
         \o PrefixLoop(rootScripts, pkgs[Len(pkgs)], REQUIRED_SCRIPT_PREFIXES)

EmptyRegistry == [k \in {} |-> ""]

(* rootPackageJson.scripts || {} *)
RootScripts(mf) == IF mf.scripts = Nothing THEN EmptyRegistry ELSE mf.scripts[1]

(* an unreadable manifest taken as one without scripts *)
checkRootScriptsCaught(mf, pkgs) ==
    IF ~mf.exists \/ ~mf.wellFormed
    THEN [threw |-> FALSE, warnings |-> ScriptLoop(EmptyRegistry, pkgs)]
    ELSE [threw |-> FALSE, warnings |-> ScriptLoop(RootScripts(mf), pkgs)]

(* readFileSync throws on a missing file, JSON.parse on a malformed one *)
checkRootScripts(mf, pkgs) ==
    IF ~mf.exists \/ ~mf.wellFormed
    THEN [threw |-> TRUE, warnings |-> <<>>]
    ELSE [threw |-> FALSE, warnings |-> ScriptLoop(RootScripts(mf), pkgs)]

(* ------------------------------ output -------------------------------- *)

CheckingLine(n) == [line |-> "checking", count |-> n]

WarningLine(w) == [line |-> "warning", warning |-> w]

Report(warnings) ==
    <<[line |-> "header"], [line |-> "intro"]>>
    \o [i \in 1..Len(warnings) |-> WarningLine(warnings[i])]
    \o <<[line |-> "footer"], [line |-> "aborted"]>>

SuccessLine == [line |-> "success"]

Printed(tag) == \E i \in 1..Len(stdout) : stdout[i].line = tag

(* ------------------------------ actions ------------------------------- *)

(* Node reads the package.json that governs the script before it runs the *)
(* module: one its reader cannot parse ends the process there, and under  *)
(* "type": "module" the require calls of lines 3-6 raise a ReferenceError *)
LoadFails ==
    /\ rootGovernsScript
    /\ manifestFile.exists
    /\ ~manifestFile.loadable \/ manifestFile.esm

LoadScript ==
    /\ pc = "load"
    /\ ~LoadFails
    /\ pc' = "start"
    /\ UNCHANGED <<env, stagedFiles, newPackages, workflowWarnings,
                   allWarnings, stdout, stderr, termination, exitCode,
                   filesRead>>

LoadScriptFails ==
    /\ pc = "load"
    /\ LoadFails
    /\ pc' = "done"
    /\ termination' = "loadError"
    /\ exitCode' = 1
    /\ stderr' = Append(stderr, "load error")
    /\ UNCHANGED <<env, stagedFiles, newPackages, workflowWarnings,
                   allWarnings, stdout, filesRead>>

(* line 106 *)
GetStagedFiles ==
    /\ pc = "start"
    /\ stagedFiles' = getStagedFiles(git).files
    /\ stderr' = stderr \o getStagedFiles(git).err
    /\ pc' = "staged"
    /\ UNCHANGED <<env, newPackages, workflowWarnings, allWarnings, stdout,
                   termination, exitCode, filesRead>>

(* line 107 *)
FindNewPackages ==
    /\ pc = "staged"
    /\ newPackages' = findNewPackages(stagedFiles)
    /\ pc' = "detected"
    /\ UNCHANGED <<env, stagedFiles, workflowWarnings, allWarnings, stdout,
                   stderr, termination, exitCode, filesRead>>

(* main without its early return *)
NeverNothingToDo(pkgs) == FALSE

NothingToDo(pkgs) == Len(pkgs) = 0

(* lines 109-112: main returns and the process ends normally *)
ReturnNoPackages ==
    /\ pc = "detected"
    /\ NothingToDo(newPackages)
    /\ pc' = "done"
    /\ termination' = "returned"
    /\ exitCode' = 0
    /\ UNCHANGED <<env, stagedFiles, newPackages, workflowWarnings,
                   allWarnings, stdout, stderr, filesRead>>

(* line 114 *)
Announce ==
    /\ pc = "detected"
    /\ ~NothingToDo(newPackages)
    /\ stdout' = Append(stdout, CheckingLine(Len(newPackages)))
    /\ pc' = "checkWorkflow"
    /\ UNCHANGED <<env, stagedFiles, newPackages, workflowWarnings,
                   allWarnings, stderr, termination, exitCode, filesRead>>

(* an uncaught exception: Node prints the error and exits with status 1 *)
Crash ==
    /\ pc' = "done"
    /\ termination' = "uncaught"
    /\ exitCode' = 1
    /\ stderr' = Append(stderr, "uncaught exception")

(* line 117 *)
CheckWorkflowPaths ==
    /\ pc = "checkWorkflow"
    /\ LET r == checkWorkflowPaths(workflowFile, newPackages)
       IN  /\ ~r.threw
           /\ workflowWarnings' = r.warnings
           /\ filesRead' = IF r.read THEN filesRead \cup {WORKFLOW_FILE_PATH}
                           ELSE filesRead
    /\ pc' = "checkScripts"
    /\ UNCHANGED <<env, stagedFiles, newPackages, allWarnings, stdout, stderr,
                   termination, exitCode>>

CheckWorkflowPathsThrows ==
    /\ pc = "checkWorkflow"
    /\ checkWorkflowPaths(workflowFile, newPackages).threw
    /\ filesRead' = filesRead \cup {WORKFLOW_FILE_PATH}
    /\ Crash
    /\ UNCHANGED <<env, stagedFiles, newPackages, workflowWarnings,
                   allWarnings, stdout>>

(* lines 116-119: the array literal is complete once both calls returned *)
CheckRootScripts ==
    /\ pc = "checkScripts"
    /\ LET r == checkRootScripts(manifestFile, newPackages)
       IN  /\ ~r.threw
           /\ allWarnings' = workflowWarnings \o r.warnings
    /\ filesRead' = filesRead \cup {ROOT_MANIFEST_PATH}
    /\ pc' = "gate"
    /\ UNCHANGED <<env, stagedFiles, newPackages, workflowWarnings, stdout,
                   stderr, termination, exitCode>>

CheckRootScriptsThrows ==
    /\ pc = "checkScripts"
    /\ checkRootScripts(manifestFile, newPackages).threw
    /\ filesRead' = filesRead \cup {ROOT_MANIFEST_PATH}
    /\ Crash
    /\ UNCHANGED <<env, stagedFiles, newPackages, workflowWarnings,
                   allWarnings, stdout>>

(* the gate that only warns, as the stale comment at lines 133-134 says *)
GateOnlyWarns(warnings) == FALSE

GateBlocks(warnings) == Len(warnings) > 0

(* lines 121-128 *)
ReportWarnings ==
    /\ pc = "gate"
    /\ GateBlocks(allWarnings)
    /\ stdout' = stdout \o Report(allWarnings)
    /\ pc' = "done"
    /\ termination' = "exit"
    /\ exitCode' = 1
    /\ UNCHANGED <<env, stagedFiles, newPackages, workflowWarnings,
                   allWarnings, stderr, filesRead>>

(* lines 129-135 *)
ReportSuccess ==
    /\ pc = "gate"
    /\ ~GateBlocks(allWarnings)
    /\ stdout' = Append(stdout, SuccessLine)
    /\ pc' = "done"
    /\ termination' = "exit"
    /\ exitCode' = 0
    /\ UNCHANGED <<env, stagedFiles, newPackages, workflowWarnings,
                   allWarnings, stderr, filesRead>>

Next ==
    \/ LoadScript
    \/ LoadScriptFails
    \/ GetStagedFiles
    \/ FindNewPackages
    \/ ReturnNoPackages
    \/ Announce
    \/ CheckWorkflowPaths
    \/ CheckWorkflowPathsThrows
    \/ CheckRootScripts
    \/ CheckRootScriptsThrows
    \/ ReportWarnings
    \/ ReportSuccess

(* --------------------------- environments ----------------------------- *)

(* duplicate-free sequences of at most n elements of S *)
ListsUpTo(S, n) ==
    { l \in UNION { [1..k -> S] : k \in 0..n } :
        \A i, j \in 1..Len(l) : l[i] = l[j] => i = j }

FooManifest == <<"services", "foo", "package.json">>

BarManifest == <<"libs", "bar", "package.json">>

LibFooManifest == <<"libs", "foo", "package.json">>

CoreFiles == {FooManifest, BarManifest, LibFooManifest, <<"package.json">>}

OtherFiles ==
    { <<"apps", "foo", "package.json">>,
      <<"services", "package.json">>,
      <<"services", "", "package.json">>,
      <<"services", "foo", "src", "package.json">>,
      <<"apps", "services", "foo", "package.json">>,
      <<"services", "foo", "package.json", "README.md">>,
      <<"services", "foo", "package.json.bak">>,
      <<"libs", "bar", "index.js">> }

CoreStaged == ListsUpTo(CoreFiles, MaxStaged)

RichStaged == ListsUpTo(CoreFiles \cup OtherFiles, MaxStaged)

Gits(lists) ==
    {[fails |-> TRUE, added |-> <<>>]}
    \cup {[fails |-> FALSE, added |-> l] : l \in lists}

FooGlob == "services/foo/**"

BarGlob == "libs/bar/**"

WideGlob == "services/**"

Triggers(values) ==
    {Nothing} \cup {Some([paths |-> Nothing])}
    \cup {Some([paths |-> Some(v)]) : v \in values}

Documents(values) ==
    {Nothing} \cup {Some([on |-> Nothing])}
    \cup {Some([on |-> Some([pull_request |-> p, push |-> q])]) :
            p \in Triggers(values), q \in Triggers(values)}

AbsentWorkflow == [exists |-> FALSE, wellFormed |-> FALSE, data |-> Nothing]

MalformedWorkflow == [exists |-> TRUE, wellFormed |-> FALSE, data |-> Nothing]

Workflows(values) ==
    {AbsentWorkflow, MalformedWorkflow}
    \cup {[exists |-> TRUE, wellFormed |-> TRUE, data |-> d] :
            d \in Documents(values)}

Lists(globs) == {[list |-> l] : l \in ListsUpTo(globs, MaxPaths)}

(* values under `paths` that are not lists *)
Scalars ==
    {[string |-> ""], [string |-> "xservices/foo/**/y libs/bar/**"],
     [number |-> 0], [number |-> 7], [boolean |-> FALSE],
     [mapping |-> {"include"}]}

CoreWorkflows == Workflows({[list |-> <<FooGlob, BarGlob>>]})

RichWorkflows == Workflows(Lists({FooGlob, BarGlob, WideGlob}) \cup Scalars)

Commands == {"", "npm run task"}

FooScripts == {"build:foo", "test:foo", "lint:foo"}

BarScripts == {"build:bar", "test:bar", "lint:bar"}

Registries(keySets) == UNION { [keys -> Commands] : keys \in keySets }

MissingManifest ==
    [exists |-> FALSE, wellFormed |-> FALSE, loadable |-> FALSE, esm |-> FALSE,
     scripts |-> Nothing]

MalformedManifest ==
    [exists |-> TRUE, wellFormed |-> FALSE, loadable |-> FALSE, esm |-> FALSE,
     scripts |-> Nothing]

(* valid JSON behind a byte order mark: Node loads it, line 88 throws *)
BomManifest ==
    [exists |-> TRUE, wellFormed |-> FALSE, loadable |-> TRUE, esm |-> FALSE,
     scripts |-> Nothing]

AllRun(keys) == [k \in keys |-> "npm run task"]

EsmManifest ==
    [exists |-> TRUE, wellFormed |-> TRUE, loadable |-> TRUE, esm |-> TRUE,
     scripts |-> Some(AllRun({"build:foo", "test:foo", "lint:foo"}))]

Manifests(registries) ==
    {MissingManifest, MalformedManifest, BomManifest, EsmManifest}
    \cup {[exists |-> TRUE, wellFormed |-> TRUE, loadable |-> TRUE, esm |-> FALSE,
            scripts |-> Nothing]}
    \cup {[exists |-> TRUE, wellFormed |-> TRUE, loadable |-> TRUE, esm |-> FALSE,
            scripts |-> Some(r)] : r \in registries}

CoreManifests ==
    Manifests({AllRun(FooScripts), AllRun(FooScripts \cup BarScripts),
               AllRun({"build:foo", "test:foo"})})

RichManifests ==
    Manifests(Registries({fs \cup bs : fs \in SUBSET FooScripts,
                                       bs \in {{}, BarScripts}}))

(* each slice varies one input widely and the others over a core; the    *)
(* last component says whether the root package.json is the one nearest  *)
(* above the script, as it is for <root>/.githooks/ without a            *)
(* package.json of its own                                               *)
Environments ==
    (Gits(RichStaged) \X CoreWorkflows \X CoreManifests \X {TRUE})
    \cup (Gits(CoreStaged) \X RichWorkflows \X CoreManifests \X {TRUE})
    \cup (Gits(CoreStaged) \X CoreWorkflows \X RichManifests \X {TRUE})
    \cup (Gits(CoreStaged) \X CoreWorkflows \X CoreManifests \X {FALSE})

Init ==
    /\ \E e \in Environments :
        /\ git = e[1]
        /\ workflowFile = e[2]
        /\ manifestFile = e[3]
        /\ rootGovernsScript = e[4]
    /\ pc = "load"
    /\ stagedFiles = <<>>
    /\ newPackages = <<>>
    /\ workflowWarnings = <<>>
    /\ allWarnings = <<>>
    /\ stdout = <<>>
    /\ stderr = <<>>
    /\ termination = "running"
    /\ exitCode = 0
    /\ filesRead = {}

Spec == Init /\ [][Next]_vars

(* ------------------------------ claims -------------------------------- *)

Detected == pc \notin {"load", "start", "staged"} /\ termination # "loadError"

FinishedNormally == pc = "done" /\ termination \notin {"uncaught", "loadError"}

(* C1: in a run that detects at least one new package and in which        *)
(* neither check throws, the exit status is 1 exactly when the aggregated *)
(* warning sequence is not empty; when it is empty the only line after    *)
(* the announcement is the success line and the status is 0.  The success *)
(* line never precedes exit 1, the 'Commit ABORTED' line never exit 0.    *)
C1_ExitStatusFollowsWarnings ==
    /\ (FinishedNormally /\ Len(newPackages) > 0) =>
          /\ termination = "exit"
          /\ exitCode = 1 <=> Len(allWarnings) > 0
          /\ Len(allWarnings) = 0 =>
                /\ exitCode = 0
                /\ stdout = <<CheckingLine(Len(newPackages)), SuccessLine>>
    /\ pc = "done" => ~(Printed("success") /\ exitCode = 1)
    /\ pc = "done" => ~(Printed("aborted") /\ exitCode = 0)

C1_Witness ==
    /\ FinishedNormally
    /\ Len(newPackages) = 2
    /\ Len(allWarnings) > 0
    /\ exitCode = 1
    /\ Printed("aborted")

NoManifestStaged ==
    git.fails \/ \A i \in 1..Len(git.added) : ~PACKAGE_LOCATION_PATTERN(git.added[i])

(* C2: when no staged path matches the package-location pattern (the git  *)
(* command failing included), the run produces no warnings, prints        *)
(* nothing to stdout, never reads the workflow file or the root manifest, *)
(* and ends with exit status 0 whatever state those two files are in.     *)
C2_NoPackagesNoOutput ==
    NoManifestStaged =>
        /\ stdout = <<>>
        /\ workflowWarnings = <<>>
        /\ allWarnings = <<>>
        /\ filesRead = {}
        /\ pc = "done" => termination = "returned" /\ exitCode = 0

(* C2, amended: as above, except that the run ends with status 0 only     *)
(* when Node can load the script: a root package.json that governs the    *)
(* script and that Node cannot parse, or declares "type": "module", ends  *)
(* the process with status 1 before main runs.  A missing or malformed        *)
(* workflow file and a missing manifest never make the run fail, and a    *)
(* malformed manifest does not once main runs.                            *)
C2_NoPackagesNoOutputOnceLoaded ==
    NoManifestStaged =>
        /\ stdout = <<>>
        /\ workflowWarnings = <<>>
        /\ allWarnings = <<>>
        /\ filesRead = {}
        /\ pc = "done" =>
              IF LoadFails
              THEN termination = "loadError" /\ exitCode = 1
              ELSE termination = "returned" /\ exitCode = 0

C2_Witness ==
    /\ pc = "done"
    /\ ~git.fails
    /\ Len(stagedFiles) = 2
    /\ NoManifestStaged
    /\ workflowFile = MalformedWorkflow
    /\ manifestFile = BomManifest
    /\ rootGovernsScript
    /\ termination = "returned"
    /\ exitCode = 0

(* the location pattern as the specification words it:                    *)
(* (services|libs)/<one segment>/package.json                             *)
IsPackageManifest(file) ==
    /\ Len(file) = 3
    /\ file[1] = "services" \/ file[1] = "libs"
    /\ file[2] # ""
    /\ file[3] = "package.json"

ManifestPositions == { i \in 1..Len(stagedFiles) : IsPackageManifest(stagedFiles[i]) }

RankIn(S, i) == Cardinality({ j \in S : j <= i })

(* C3: findNewPackages returns one PackageRef per staged path matching    *)
(* the location pattern and none for any other, in staged order; path is  *)
(* the directory of the manifest and name its last segment; the staged    *)
(* sequence itself is left as getStagedFiles returned it.                 *)
C3_DetectorExactOrdered ==
    Detected =>
        /\ Len(newPackages) = Cardinality(ManifestPositions)
        /\ \A i \in ManifestPositions :
              newPackages[RankIn(ManifestPositions, i)] =
                  [name |-> stagedFiles[i][2],
                   path |-> stagedFiles[i][1] \o "/" \o stagedFiles[i][2]]
        /\ stagedFiles = (IF git.fails THEN <<>> ELSE git.added)

C3_Witness ==
    /\ pc = "detected"
    /\ Len(stagedFiles) = 2
    /\ ~IsPackageManifest(stagedFiles[1])
    /\ newPackages = <<[name |-> "foo", path |-> "services/foo"]>>

(* the manifest is read only after checkWorkflowPaths has returned *)
WorkflowChecked ==
    \/ pc \in {"checkScripts", "gate"}
    \/ pc = "done" /\ ROOT_MANIFEST_PATH \in filesRead

WorkflowParses == workflowFile.exists /\ workflowFile.wellFormed

GlobOf(pkg) == pkg.path \o "/**"

(* the extracted trigger paths are a list, as the workflow syntax has it *)
TriggerIsList == IsList(TriggerPaths(workflowFile.data))

GlobListed(pkg) ==
    /\ TriggerIsList
    /\ \E j \in 1..Len(TriggerPaths(workflowFile.data).list) :
          TriggerPaths(workflowFile.data).list[j] = GlobOf(pkg)

UnlistedPositions == { i \in 1..Len(newPackages) : ~GlobListed(newPackages[i]) }

(* C4: when the workflow file exists and parses, checkWorkflowPaths       *)
(* returns one warning for each package whose glob {path}/** is not an    *)
(* element of the trigger path list and none for the others, in package   *)
(* order, each naming the package and the missing glob.  (The claim       *)
(* speaks of a trigger path list: a scalar or a mapping under `paths` is  *)
(* outside it.)                                                           *)
C4_OneWarningPerUnlistedGlob ==
    (WorkflowChecked /\ WorkflowParses /\ TriggerIsList) =>
        /\ Len(workflowWarnings) = Cardinality(UnlistedPositions)
        /\ \A i \in UnlistedPositions :
              LET w == workflowWarnings[RankIn(UnlistedPositions, i)]
              IN  /\ w.kind = "workflowPath"
                  /\ w.name = newPackages[i].name
                  /\ w.glob = GlobOf(newPackages[i])

C4_Witness ==
    /\ pc = "checkScripts"
    /\ WorkflowParses
    /\ Len(newPackages) = 2
    /\ GlobListed(newPackages[1])
    /\ workflowWarnings = <<[kind |-> "workflowPath", name |-> "bar",
                             glob |-> "libs/bar/**", file |-> WORKFLOW_FILE_PATH]>>

ScriptsChecked == pc = "gate" \/ (pc = "done" /\ termination = "exit")

ScriptWarnings == SubSeq(allWarnings, Len(workflowWarnings) + 1, Len(allWarnings))

NPrefixes == Len(REQUIRED_SCRIPT_PREFIXES)

(* the k-th (package, prefix) pair, packages first, prefixes within *)
ScriptNameAt(k) ==
    REQUIRED_SCRIPT_PREFIXES[((k - 1) % NPrefixes) + 1]
    \o newPackages[((k - 1) \div NPrefixes) + 1].name

RegistryKeys ==
    IF manifestFile.scripts = Nothing THEN {} ELSE DOMAIN manifestFile.scripts[1]

AbsentKeyPositions ==
    { k \in 1..(NPrefixes * Len(newPackages)) : ScriptNameAt(k) \notin RegistryKeys }

(* C5: checkRootScripts returns, for every package and every prefix of    *)
(* [build:, test:, lint:], one warning when {prefix}{name} is not a key   *)
(* of the root manifest's scripts and none when it is a key, whatever     *)
(* command it maps to; ordered by package, then by prefix.                *)
C5_WarningIffKeyAbsent ==
    ScriptsChecked =>
        /\ Len(ScriptWarnings) = Cardinality(AbsentKeyPositions)
        /\ \A k \in AbsentKeyPositions :
              ScriptWarnings[RankIn(AbsentKeyPositions, k)] =
                  [kind |-> "missingScript", script |-> ScriptNameAt(k)]

(* C6: when the workflow file is absent, checkWorkflowPaths returns the   *)
(* one informational warning and nothing else however many packages it    *)
(* is given, never calls readFileSync on the file, and does not throw: a  *)
(* crash in such a run comes after the manifest read.                     *)
C6_AbsentWorkflowOneWarning ==
    (~workflowFile.exists /\ Len(newPackages) > 0) =>
        /\ WORKFLOW_FILE_PATH \notin filesRead
        /\ pc \in {"checkScripts", "gate", "done"} =>
              /\ Len(workflowWarnings) = 1
              /\ workflowWarnings[1].kind = "workflowNotFound"
        /\ termination = "uncaught" => ROOT_MANIFEST_PATH \in filesRead

C6_Witness ==
    /\ pc = "checkScripts"
    /\ ~workflowFile.exists
    /\ Len(newPackages) = 2
    /\ Len(workflowWarnings) = 1

AllScriptsRegistered(pkg) ==
    \A j \in 1..NPrefixes : (REQUIRED_SCRIPT_PREFIXES[j] \o pkg.name) \in RegistryKeys

NoScriptRegistered(pkg) ==
    \A j \in 1..NPrefixes : (REQUIRED_SCRIPT_PREFIXES[j] \o pkg.name) \notin RegistryKeys

FullyCompliant(pkg) == WorkflowParses /\ GlobListed(pkg) /\ AllScriptsRegistered(pkg)

Names(pkg, w) ==
    \/ w.kind = "workflowPath" /\ w.glob = GlobOf(pkg)
    \/ w.kind = "missingScript"
       /\ \E j \in 1..NPrefixes : w.script = REQUIRED_SCRIPT_PREFIXES[j] \o pkg.name

(* C7: the reported sequence is the workflow warnings followed by the     *)
(* script warnings; a package whose glob is listed and whose three        *)
(* scripts are registered contributes no warning; so two new packages,    *)
(* one fully compliant and one missing its glob and all three scripts,    *)
(* give exactly 4 warnings and exit status 1.                             *)
C7_CompliantPackageAddsNothing ==
    (pc = "done" /\ termination = "exit" /\ (WorkflowParses => TriggerIsList)) =>
        /\ SubSeq(allWarnings, 1, Len(workflowWarnings)) = workflowWarnings
        /\ \A i \in 1..Len(newPackages) :
              FullyCompliant(newPackages[i]) =>
                  \A k \in 1..Len(allWarnings) : ~Names(newPackages[i], allWarnings[k])
        /\ ( /\ Len(newPackages) = 2
             /\ FullyCompliant(newPackages[1])
             /\ ~GlobListed(newPackages[2])
             /\ NoScriptRegistered(newPackages[2]) )
           => (Len(allWarnings) = 4 /\ exitCode = 1)

WorkflowMalformed == workflowFile.exists /\ ~workflowFile.wellFormed

ManifestUnreadable == ~manifestFile.exists \/ ~manifestFile.wellFormed

ReportLine(l) == l.line \in {"header", "intro", "warning", "footer", "aborted", "success"}

ManifestStaged == ~NoManifestStaged

(* C8: in a run with at least one new package, a malformed workflow file  *)
(* or a missing or malformed root manifest ends the run by an uncaught    *)
(* error before the gate: no report line and no success line is printed   *)
(* and no explicit exit runs; when the manifest read of line 88 fails the *)
(* workflow check has returned, and its warnings are never reported.      *)
C8_FatalBeforeGate ==
    (ManifestStaged /\ (WorkflowMalformed \/ ManifestUnreadable)) =>
        /\ pc # "gate"
        /\ allWarnings = <<>>
        /\ \A i \in 1..Len(stdout) : ~ReportLine(stdout[i])
        /\ pc = "done" =>
              /\ termination \in {"uncaught", "loadError"}
              /\ exitCode = 1
              /\ WorkflowMalformed => ROOT_MANIFEST_PATH \notin filesRead
              /\ ROOT_MANIFEST_PATH \in filesRead =>
                    /\ termination = "uncaught"
                    /\ workflowFile.exists => WORKFLOW_FILE_PATH \in filesRead
                    /\ ~workflowFile.exists => workflowWarnings = <<NotFoundWarning>>
                    /\ stdout = <<CheckingLine(Len(newPackages))>>

C8_Witness ==
    /\ pc = "done"
    /\ termination = "uncaught"
    /\ manifestFile = BomManifest
    /\ rootGovernsScript
    /\ WorkflowParses
    /\ Len(workflowWarnings) = 2
    /\ stdout = <<CheckingLine(2)>>

PullRequestValue ==
    LET d == workflowFile.data
    IN  IF d # <<>> /\ d[1].on # <<>> /\ d[1].on[1].pull_request # <<>>
        THEN d[1].on[1].pull_request[1].paths ELSE <<>>

PushValue ==
    LET d == workflowFile.data
    IN  IF d # <<>> /\ d[1].on # <<>> /\ d[1].on[1].push # <<>>
        THEN d[1].on[1].push[1].paths ELSE <<>>

ListPresent(m) == m # <<>> /\ "list" \in DOMAIN m[1]

Elements(list) == { list[j] : j \in 1..Len(list) }

WarnedAbout(pkg) ==
    \E k \in 1..Len(workflowWarnings) :
        /\ workflowWarnings[k].kind = "workflowPath"
        /\ workflowWarnings[k].glob = GlobOf(pkg)

(* the cases the claim speaks of: a pull-request paths list, whatever is  *)
(* under push; or no pull-request paths and a push paths list or none     *)
PathsAreListsOrAbsent ==
    \/ ListPresent(PullRequestValue)
    \/ PullRequestValue = <<>> /\ (ListPresent(PushValue) \/ PushValue = <<>>)

(* C9: the trigger path list is the pull-request paths when present (an   *)
(* empty list included), else the push paths, else empty; the lists are   *)
(* never merged, so with a pull-request list present a package is warned  *)
(* about exactly when its glob is not in that list, push notwithstanding. *)
C9_PullRequestThenPush ==
    (WorkflowChecked /\ WorkflowParses /\ PathsAreListsOrAbsent) =>
        \A i \in 1..Len(newPackages) :
            LET listed ==
                    IF ListPresent(PullRequestValue)
                    THEN GlobOf(newPackages[i]) \in Elements(PullRequestValue[1].list)
                    ELSE IF ListPresent(PushValue)
                    THEN GlobOf(newPackages[i]) \in Elements(PushValue[1].list)
                    ELSE FALSE
            IN  WarnedAbout(newPackages[i]) <=> ~listed

C9_Witness ==
    /\ pc = "checkScripts"
    /\ WorkflowParses
    /\ PullRequestValue = <<[list |-> <<>>]>>
    /\ PushValue = <<[list |-> <<FooGlob>>]>>
    /\ newPackages = <<[name |-> "foo", path |-> "services/foo"]>>
    /\ Len(workflowWarnings) = 1

(* C10: with at least one new package, the workflow file absent and the   *)
(* root manifest readable, the run ends with exit status 1 whatever the   *)
(* scripts are, every required one present included: the not-found        *)
(* warning is part of the sequence the gate tests.                        *)
C10_AbsentWorkflowBlocks ==
    (pc = "done" /\ Len(newPackages) > 0 /\ ~workflowFile.exists
     /\ ~ManifestUnreadable) =>
        /\ termination = "exit"
        /\ exitCode = 1
        /\ Printed("aborted")
        /\ allWarnings[1].kind = "workflowNotFound"

C10_Witness ==
    /\ pc = "done"
    /\ ~workflowFile.exists
    /\ newPackages = <<[name |-> "foo", path |-> "services/foo"]>>
    /\ manifestFile.scripts = <<AllRun(FooScripts)>>
    /\ Len(allWarnings) = 1
    /\ exitCode = 1
====
